---------------------------- MODULE Spec2Model ----------------------------
(***************************************************************************)
(* Model of examples/financial-sim/generate-comprehensive-coa.py: the      *)
(* chart-of-accounts generator generate_comprehensive_coa() and the        *)
(* statistics loop of the __main__ block.                                  *)
(*                                                                         *)
(* Encoding of Python values:                                              *)
(*   - an account code (a str of decimal digits that the program slices)   *)
(*     is the sequence of its digits: "4410" is <<4,4,1,0>>;               *)
(*   - the other strings (name, type, currency, regulation) are never      *)
(*     taken apart and stay strings;                                       *)
(*   - a dict literal is a record, a list is a sequence, the dict by_type  *)
(*     is a function whose domain is its key set.                          *)
(***************************************************************************)
EXTENDS Integers, Sequences, FiniteSets, TLC

\* How many times the generator is called one after the other.
MaxRuns == 2

\* Python None; no digit string equals it.
None == <<-1>>

\* A name that has not been assigned yet.
Unbound == "unbound"

VARIABLES
  pc,        \* position in the script: "call", "build", "dump", "stats", "end"
  run,       \* number of the current call of generate_comprehensive_coa()
  stmt,      \* index in Program of the next statement of the function body
  i,         \* position of the running for loop in its table
  accounts,  \* the list `accounts` of generate_comprehensive_coa
  coa,       \* the document returned by the call (line 476)
  by_type,   \* the dict by_type of the statistics loop
  k,         \* position of the statistics loop in the account list
  prev_coa   \* the document returned by the previous call

vars == <<pc, run, stmt, i, accounts, coa, by_type, k, prev_coa>>

(***************************************************************************)
(* The literal tables and the statements of the function body.  A          *)
(* statement is either accounts.append(<dict literal>) or a for loop over  *)
(* a table; the loops come in the three shapes of the source: "opts"       *)
(* (lines 32-34), "plain" and "derived" (lines 276-278).                   *)
(***************************************************************************)

\* lines 22-31
cash_accounts ==
  << <<<<1,1,0,1>>, "Petty Cash">>,
     <<<<1,1,0,2>>, "Cash - Operating Account">>,
     <<<<1,1,0,3>>, "Cash - Payroll Account">>,
     <<<<1,1,0,4>>, "Cash - Savings Account">>,
     <<<<1,1,0,5>>, "Cash - Money Market">>,
     <<<<1,1,0,6>>, "Cash - Foreign Currency - EUR", "EUR">>,
     <<<<1,1,0,7>>, "Cash - Foreign Currency - GBP", "GBP">>,
     <<<<1,1,0,8>>, "Cash - Foreign Currency - JPY", "JPY">> >>

\* lines 38-46
ar_accounts ==
  << <<<<1,1,1,1>>, "AR - Trade">>,
     <<<<1,1,1,2>>, "AR - Related Parties">>,
     <<<<1,1,1,3>>, "AR - Employees">>,
     <<<<1,1,1,4>>, "AR - Insurance Claims">>,
     <<<<1,1,1,5>>, "Allowance for Doubtful Accounts">>,
     <<<<1,1,1,6>>, "AR - Government Contracts">>,
     <<<<1,1,1,7>>, "AR - International">> >>

\* lines 52-62
inventory_accounts ==
  << <<<<1,1,3,1>>, "Raw Materials">>,
     <<<<1,1,3,2>>, "Work in Process">>,
     <<<<1,1,3,3>>, "Finished Goods">>,
     <<<<1,1,3,4>>, "Merchandise Inventory">>,
     <<<<1,1,3,5>>, "Supplies Inventory">>,
     <<<<1,1,3,6>>, "Packaging Materials">>,
     <<<<1,1,3,7>>, "Manufacturing Supplies">>,
     <<<<1,1,3,8>>, "Inventory in Transit">>,
     <<<<1,1,3,9>>, "Obsolete Inventory">> >>

\* lines 68-74
prepaid ==
  << <<<<1,1,4,1>>, "Prepaid Insurance">>,
     <<<<1,1,4,2>>, "Prepaid Rent">>,
     <<<<1,1,4,3>>, "Prepaid Taxes">>,
     <<<<1,1,4,4>>, "Prepaid Subscriptions">>,
     <<<<1,1,4,5>>, "Prepaid Licenses">> >>

\* the investments table with the code of its first row repeated in the second
investments_dup ==
  << <<<<1,1,5,1>>, "Marketable Securities">>,
     <<<<1,1,5,1>>, "Treasury Bills">>,
     <<<<1,1,5,3>>, "Commercial Paper">>,
     <<<<1,1,5,4>>, "Certificates of Deposit">> >>

\* lines 80-85
investments ==
  << <<<<1,1,5,1>>, "Marketable Securities">>,
     <<<<1,1,5,2>>, "Treasury Bills">>,
     <<<<1,1,5,3>>, "Commercial Paper">>,
     <<<<1,1,5,4>>, "Certificates of Deposit">> >>

\* lines 95-101
buildings ==
  << <<<<1,2,2,1>>, "Buildings - Office">>,
     <<<<1,2,2,2>>, "Buildings - Warehouse">>,
     <<<<1,2,2,3>>, "Buildings - Manufacturing">>,
     <<<<1,2,2,4>>, "Buildings - Retail">>,
     <<<<1,2,2,5>>, "Accumulated Depreciation - Buildings">> >>

\* lines 111-117
equipment ==
  << <<<<1,2,4,1>>, "Manufacturing Equipment">>,
     <<<<1,2,4,2>>, "Office Equipment">>,
     <<<<1,2,4,3>>, "Computer Equipment">>,
     <<<<1,2,4,4>>, "Network Equipment">>,
     <<<<1,2,4,5>>, "Accumulated Depreciation - Equipment">> >>

\* lines 131-143
intangibles ==
  << <<<<1,3,1,0>>, "Patents">>,
     <<<<1,3,1,5>>, "Accumulated Amortization - Patents">>,
     <<<<1,3,2,0>>, "Trademarks">>,
     <<<<1,3,2,5>>, "Accumulated Amortization - Trademarks">>,
     <<<<1,3,3,0>>, "Copyrights">>,
     <<<<1,3,3,5>>, "Accumulated Amortization - Copyrights">>,
     <<<<1,3,4,0>>, "Goodwill">>,
     <<<<1,3,5,0>>, "Software Development Costs">>,
     <<<<1,3,5,5>>, "Accumulated Amortization - Software">>,
     <<<<1,3,6,0>>, "Customer Relationships">>,
     <<<<1,3,7,0>>, "Brand Names">> >>

\* lines 16-145: the statements of the block, in program order
AssetsBlock ==
  << [op |-> "append", rec |-> [code |-> <<1,0,0,0>>, name |-> "Assets", type |-> "ASSET", parent |-> None, currency |-> "USD", regulation |-> ""]],
     [op |-> "append", rec |-> [code |-> <<1,1,0,0>>, name |-> "Current Assets", type |-> "ASSET", parent |-> <<1,0,0,0>>, currency |-> "USD"]],
     [op |-> "for", kind |-> "opts", items |-> cash_accounts, type |-> "ASSET", parent |-> <<1,1,0,0>>],
     [op |-> "append", rec |-> [code |-> <<1,1,1,0>>, name |-> "Accounts Receivable", type |-> "ASSET", parent |-> <<1,1,0,0>>, currency |-> "USD"]],
     [op |-> "for", kind |-> "plain", items |-> ar_accounts, type |-> "ASSET", parent |-> <<1,1,1,0>>],
     [op |-> "append", rec |-> [code |-> <<1,1,3,0>>, name |-> "Inventory", type |-> "ASSET", parent |-> <<1,1,0,0>>, currency |-> "USD"]],
     [op |-> "for", kind |-> "plain", items |-> inventory_accounts, type |-> "ASSET", parent |-> <<1,1,3,0>>],
     [op |-> "append", rec |-> [code |-> <<1,1,4,0>>, name |-> "Prepaid Expenses", type |-> "ASSET", parent |-> <<1,1,0,0>>, currency |-> "USD"]],
     [op |-> "for", kind |-> "plain", items |-> prepaid, type |-> "ASSET", parent |-> <<1,1,4,0>>],
     [op |-> "append", rec |-> [code |-> <<1,1,5,0>>, name |-> "Short-term Investments", type |-> "ASSET", parent |-> <<1,1,0,0>>, currency |-> "USD"]],
     [op |-> "for", kind |-> "plain", items |-> investments, type |-> "ASSET", parent |-> <<1,1,5,0>>],
     [op |-> "append", rec |-> [code |-> <<1,2,0,0>>, name |-> "Fixed Assets", type |-> "ASSET", parent |-> <<1,0,0,0>>, currency |-> "USD"]],
     [op |-> "append", rec |-> [code |-> <<1,2,1,0>>, name |-> "Land", type |-> "ASSET", parent |-> <<1,2,0,0>>, currency |-> "USD"]],
     [op |-> "append", rec |-> [code |-> <<1,2,2,0>>, name |-> "Buildings", type |-> "ASSET", parent |-> <<1,2,0,0>>, currency |-> "USD"]],
     [op |-> "for", kind |-> "plain", items |-> buildings, type |-> "ASSET", parent |-> <<1,2,2,0>>],
     [op |-> "append", rec |-> [code |-> <<1,2,3,0>>, name |-> "Leasehold Improvements", type |-> "ASSET", parent |-> <<1,2,0,0>>, currency |-> "USD"]],
     [op |-> "append", rec |-> [code |-> <<1,2,3,5>>, name |-> "Accumulated Amortization - Leasehold", type |-> "ASSET", parent |-> <<1,2,3,0>>, currency |-> "USD"]],
     [op |-> "append", rec |-> [code |-> <<1,2,4,0>>, name |-> "Equipment", type |-> "ASSET", parent |-> <<1,2,0,0>>, currency |-> "USD"]],
     [op |-> "for", kind |-> "plain", items |-> equipment, type |-> "ASSET", parent |-> <<1,2,4,0>>],
     [op |-> "append", rec |-> [code |-> <<1,2,5,0>>, name |-> "Vehicles", type |-> "ASSET", parent |-> <<1,2,0,0>>, currency |-> "USD"]],
     [op |-> "append", rec |-> [code |-> <<1,2,5,5>>, name |-> "Accumulated Depreciation - Vehicles", type |-> "ASSET", parent |-> <<1,2,5,0>>, currency |-> "USD"]],
     [op |-> "append", rec |-> [code |-> <<1,2,6,0>>, name |-> "Furniture and Fixtures", type |-> "ASSET", parent |-> <<1,2,0,0>>, currency |-> "USD"]],
     [op |-> "append", rec |-> [code |-> <<1,2,6,5>>, name |-> "Accumulated Depreciation - Furniture", type |-> "ASSET", parent |-> <<1,2,6,0>>, currency |-> "USD"]],
     [op |-> "append", rec |-> [code |-> <<1,3,0,0>>, name |-> "Intangible Assets", type |-> "ASSET", parent |-> <<1,0,0,0>>, currency |-> "USD"]],
     [op |-> "for", kind |-> "plain", items |-> intangibles, type |-> "ASSET", parent |-> <<1,3,0,0>>] >>

\* lines 156-161
ap_accounts ==
  << <<<<2,1,1,1>>, "AP - Trade">>,
     <<<<2,1,1,2>>, "AP - Related Parties">>,
     <<<<2,1,1,3>>, "AP - Utilities">>,
     <<<<2,1,1,4>>, "AP - Rent">> >>

\* lines 172-179
accrued ==
  << <<<<2,1,3,1>>, "Accrued Salaries">>,
     <<<<2,1,3,2>>, "Accrued Taxes">>,
     <<<<2,1,3,3>>, "Accrued Interest">>,
     <<<<2,1,3,4>>, "Accrued Utilities">>,
     <<<<2,1,3,5>>, "Accrued Rent">>,
     <<<<2,1,3,6>>, "Accrued Commissions">> >>

\* lines 190-197
payroll_liab ==
  << <<<<2,1,5,1>>, "Federal Income Tax Withheld">>,
     <<<<2,1,5,2>>, "State Income Tax Withheld">>,
     <<<<2,1,5,3>>, "Social Security Tax Payable">>,
     <<<<2,1,5,4>>, "Medicare Tax Payable">>,
     <<<<2,1,5,5>>, "401k Contributions Payable">>,
     <<<<2,1,5,6>>, "Health Insurance Payable">> >>

\* lines 203-210
lt_liab ==
  << <<<<2,2,1,0>>, "Long-term Loans">>,
     <<<<2,2,2,0>>, "Bonds Payable">>,
     <<<<2,2,3,0>>, "Mortgage Payable">>,
     <<<<2,2,4,0>>, "Deferred Tax Liability">>,
     <<<<2,2,5,0>>, "Pension Liability">>,
     <<<<2,2,6,0>>, "Lease Obligations">> >>

\* lines 149-212: the statements of the block, in program order
LiabilitiesBlock ==
  << [op |-> "append", rec |-> [code |-> <<2,0,0,0>>, name |-> "Liabilities", type |-> "LIABILITY", parent |-> None, currency |-> "USD"]],
     [op |-> "append", rec |-> [code |-> <<2,1,0,0>>, name |-> "Current Liabilities", type |-> "LIABILITY", parent |-> <<2,0,0,0>>, currency |-> "USD"]],
     [op |-> "append", rec |-> [code |-> <<2,1,1,0>>, name |-> "Accounts Payable", type |-> "LIABILITY", parent |-> <<2,1,0,0>>, currency |-> "USD"]],
     [op |-> "for", kind |-> "plain", items |-> ap_accounts, type |-> "LIABILITY", parent |-> <<2,1,1,0>>],
     [op |-> "append", rec |-> [code |-> <<2,1,2,0>>, name |-> "Short-term Loans", type |-> "LIABILITY", parent |-> <<2,1,0,0>>, currency |-> "USD"]],
     [op |-> "append", rec |-> [code |-> <<2,1,2,1>>, name |-> "Line of Credit", type |-> "LIABILITY", parent |-> <<2,1,2,0>>, currency |-> "USD"]],
     [op |-> "append", rec |-> [code |-> <<2,1,2,2>>, name |-> "Notes Payable - Current", type |-> "LIABILITY", parent |-> <<2,1,2,0>>, currency |-> "USD"]],
     [op |-> "append", rec |-> [code |-> <<2,1,3,0>>, name |-> "Accrued Expenses", type |-> "LIABILITY", parent |-> <<2,1,0,0>>, currency |-> "USD"]],
     [op |-> "for", kind |-> "plain", items |-> accrued, type |-> "LIABILITY", parent |-> <<2,1,3,0>>],
     [op |-> "append", rec |-> [code |-> <<2,1,4,0>>, name |-> "Deferred Revenue", type |-> "LIABILITY", parent |-> <<2,1,0,0>>, currency |-> "USD"]],
     [op |-> "append", rec |-> [code |-> <<2,1,4,1>>, name |-> "Unearned Service Revenue", type |-> "LIABILITY", parent |-> <<2,1,4,0>>, currency |-> "USD"]],
     [op |-> "append", rec |-> [code |-> <<2,1,4,2>>, name |-> "Customer Deposits", type |-> "LIABILITY", parent |-> <<2,1,4,0>>, currency |-> "USD"]],
     [op |-> "append", rec |-> [code |-> <<2,1,5,0>>, name |-> "Payroll Liabilities", type |-> "LIABILITY", parent |-> <<2,1,0,0>>, currency |-> "USD"]],
     [op |-> "for", kind |-> "plain", items |-> payroll_liab, type |-> "LIABILITY", parent |-> <<2,1,5,0>>],
     [op |-> "append", rec |-> [code |-> <<2,2,0,0>>, name |-> "Long-term Liabilities", type |-> "LIABILITY", parent |-> <<2,0,0,0>>, currency |-> "USD"]],
     [op |-> "for", kind |-> "plain", items |-> lt_liab, type |-> "LIABILITY", parent |-> <<2,2,0,0>>] >>

\* lines 217-226
equity_accounts ==
  << <<<<3,1,0,0>>, "Owner's Equity">>,
     <<<<3,2,0,0>>, "Retained Earnings">>,
     <<<<3,3,0,0>>, "Common Stock">>,
     <<<<3,3,1,0>>, "Preferred Stock">>,
     <<<<3,4,0,0>>, "Additional Paid-in Capital">>,
     <<<<3,5,0,0>>, "Treasury Stock">>,
     <<<<3,6,0,0>>, "Accumulated Other Comprehensive Income">>,
     <<<<3,7,0,0>>, "Dividends">> >>

\* the Equity block with the loop placed before the append of its root
EquityBlockLoopFirst ==
  << [op |-> "for", kind |-> "plain", items |-> equity_accounts, type |-> "EQUITY", parent |-> <<3,0,0,0>>],
     [op |-> "append", rec |-> [code |-> <<3,0,0,0>>, name |-> "Equity", type |-> "EQUITY", parent |-> None, currency |-> "USD"]] >>

\* lines 216-228: the statements of the block, in program order
EquityBlock ==
  << [op |-> "append", rec |-> [code |-> <<3,0,0,0>>, name |-> "Equity", type |-> "EQUITY", parent |-> None, currency |-> "USD"]],
     [op |-> "for", kind |-> "plain", items |-> equity_accounts, type |-> "EQUITY", parent |-> <<3,0,0,0>>] >>

\* lines 236-245
sales ==
  << <<<<4,1,1,0>>, "Product Sales">>,
     <<<<4,1,1,1>>, "Domestic Sales">>,
     <<<<4,1,1,2>>, "International Sales">>,
     <<<<4,1,1,3>>, "Online Sales">>,
     <<<<4,1,1,4>>, "Retail Sales">>,
     <<<<4,1,1,5>>, "Wholesale Sales">>,
     <<<<4,1,2,0>>, "Sales Returns and Allowances">>,
     <<<<4,1,3,0>>, "Sales Discounts">> >>

\* lines 251-261
services ==
  << <<<<4,2,1,0>>, "Consulting Revenue">>,
     <<<<4,2,2,0>>, "Professional Fees">>,
     <<<<4,2,3,0>>, "Billable Hours">>,
     <<<<4,2,4,0>>, "Retainer Fees">>,
     <<<<4,2,5,0>>, "Subscription Revenue">>,
     <<<<4,2,5,1>>, "Monthly Subscriptions">>,
     <<<<4,2,5,2>>, "Annual Subscriptions">>,
     <<<<4,2,6,0>>, "Maintenance Revenue">>,
     <<<<4,2,7,0>>, "Support Revenue">> >>

\* lines 266-275
other_revenue ==
  << <<<<4,3,0,0>>, "Interest Income">>,
     <<<<4,4,0,0>>, "Rental Income">>,
     <<<<4,4,1,0>>, "Rental Income - Residential">>,
     <<<<4,4,2,0>>, "Rental Income - Commercial">>,
     <<<<4,5,0,0>>, "Dividend Income">>,
     <<<<4,6,0,0>>, "Gain on Sale of Assets">>,
     <<<<4,7,0,0>>, "Foreign Exchange Gain">>,
     <<<<4,8,0,0>>, "Miscellaneous Revenue">> >>

\* lines 232-278: the statements of the block, in program order
RevenueBlock ==
  << [op |-> "append", rec |-> [code |-> <<4,0,0,0>>, name |-> "Revenue", type |-> "REVENUE", parent |-> None, currency |-> "USD"]],
     [op |-> "append", rec |-> [code |-> <<4,1,0,0>>, name |-> "Sales Revenue", type |-> "REVENUE", parent |-> <<4,0,0,0>>, currency |-> "USD"]],
     [op |-> "for", kind |-> "plain", items |-> sales, type |-> "REVENUE", parent |-> <<4,1,0,0>>],
     [op |-> "append", rec |-> [code |-> <<4,2,0,0>>, name |-> "Service Revenue", type |-> "REVENUE", parent |-> <<4,0,0,0>>, currency |-> "USD"]],
     [op |-> "for", kind |-> "plain", items |-> services, type |-> "REVENUE", parent |-> <<4,2,0,0>>],
     [op |-> "for", kind |-> "derived", items |-> other_revenue, type |-> "REVENUE"] >>

\* lines 286-292
cogs ==
  << <<<<5,1,1,0>>, "Direct Materials">>,
     <<<<5,1,2,0>>, "Direct Labor">>,
     <<<<5,1,3,0>>, "Manufacturing Overhead">>,
     <<<<5,1,4,0>>, "Freight In">>,
     <<<<5,1,5,0>>, "Inventory Shrinkage">> >>

\* lines 301-309
payroll ==
  << <<<<5,2,1,1>>, "Executive Salaries">>,
     <<<<5,2,1,2>>, "Administrative Salaries">>,
     <<<<5,2,1,3>>, "Sales Salaries">>,
     <<<<5,2,1,4>>, "Production Wages">>,
     <<<<5,2,1,5>>, "Overtime">>,
     <<<<5,2,1,6>>, "Bonuses">>,
     <<<<5,2,1,7>>, "Commissions">> >>

\* lines 315-323
benefits ==
  << <<<<5,2,2,1>>, "Health Insurance">>,
     <<<<5,2,2,2>>, "Dental Insurance">>,
     <<<<5,2,2,3>>, "Life Insurance">>,
     <<<<5,2,2,4>>, "401k Matching">>,
     <<<<5,2,2,5>>, "Pension Contributions">>,
     <<<<5,2,2,6>>, "Workers Compensation">>,
     <<<<5,2,2,7>>, "Unemployment Insurance">> >>

\* lines 329-337
occupancy ==
  << <<<<5,2,3,1>>, "Office Rent">>,
     <<<<5,2,3,2>>, "Warehouse Rent">>,
     <<<<5,2,3,3>>, "Electricity">>,
     <<<<5,2,3,4>>, "Gas">>,
     <<<<5,2,3,5>>, "Water">>,
     <<<<5,2,3,6>>, "Internet">>,
     <<<<5,2,3,7>>, "Telephone">> >>

\* lines 343-350
marketing ==
  << <<<<5,2,4,1>>, "Digital Advertising">>,
     <<<<5,2,4,2>>, "Print Advertising">>,
     <<<<5,2,4,3>>, "Trade Shows">>,
     <<<<5,2,4,4>>, "Promotional Materials">>,
     <<<<5,2,4,5>>, "Website Marketing">>,
     <<<<5,2,4,6>>, "Social Media Marketing">> >>

\* lines 356-361
professional ==
  << <<<<5,2,5,1>>, "Legal Fees">>,
     <<<<5,2,5,2>>, "Accounting Fees">>,
     <<<<5,2,5,3>>, "Consulting Fees">>,
     <<<<5,2,5,4>>, "Audit Fees">> >>

\* lines 367-372
insurance ==
  << <<<<5,2,6,1>>, "General Liability Insurance">>,
     <<<<5,2,6,2>>, "Property Insurance">>,
     <<<<5,2,6,3>>, "Auto Insurance">>,
     <<<<5,2,6,4>>, "Directors and Officers Insurance">> >>

\* lines 378-384
office ==
  << <<<<5,2,7,1>>, "Office Supplies">>,
     <<<<5,2,7,2>>, "Postage and Delivery">>,
     <<<<5,2,7,3>>, "Printing and Copying">>,
     <<<<5,2,7,4>>, "Subscriptions and Memberships">>,
     <<<<5,2,7,5>>, "Software Licenses">> >>

\* lines 390-396
travel ==
  << <<<<5,2,8,1>>, "Airfare">>,
     <<<<5,2,8,2>>, "Hotels">>,
     <<<<5,2,8,3>>, "Meals">>,
     <<<<5,2,8,4>>, "Car Rental">>,
     <<<<5,2,8,5>>, "Client Entertainment">> >>

\* lines 402-407
maintenance ==
  << <<<<5,2,9,1>>, "Building Maintenance">>,
     <<<<5,2,9,2>>, "Equipment Repairs">>,
     <<<<5,2,9,3>>, "Vehicle Maintenance">>,
     <<<<5,2,9,4>>, "Computer Repairs">> >>

\* lines 413-418
depreciation ==
  << <<<<5,3,1,0>>, "Depreciation - Buildings">>,
     <<<<5,3,2,0>>, "Depreciation - Equipment">>,
     <<<<5,3,3,0>>, "Depreciation - Vehicles">>,
     <<<<5,3,4,0>>, "Amortization - Intangibles">> >>

\* lines 424-429
interest ==
  << <<<<5,4,1,0>>, "Interest Expense - Loans">>,
     <<<<5,4,2,0>>, "Interest Expense - Credit Cards">>,
     <<<<5,4,3,0>>, "Bank Charges">>,
     <<<<5,4,4,0>>, "Finance Charges">> >>

\* lines 435-441
taxes ==
  << <<<<5,5,1,0>>, "Federal Income Tax">>,
     <<<<5,5,2,0>>, "State Income Tax">>,
     <<<<5,5,3,0>>, "Property Tax">>,
     <<<<5,5,4,0>>, "Sales Tax">>,
     <<<<5,5,5,0>>, "Payroll Taxes">> >>

\* lines 447-456
other_expenses ==
  << <<<<5,6,1,0>>, "Bad Debt Expense">>,
     <<<<5,6,2,0>>, "Loss on Sale of Assets">>,
     <<<<5,6,3,0>>, "Foreign Exchange Loss">>,
     <<<<5,6,4,0>>, "Donations">>,
     <<<<5,6,5,0>>, "Research and Development">>,
     <<<<5,6,6,0>>, "Training and Development">>,
     <<<<5,6,7,0>>, "Licenses and Permits">>,
     <<<<5,6,8,0>>, "Miscellaneous Expense">> >>

\* lines 282-458: the statements of the block, in program order
ExpensesBlock ==
  << [op |-> "append", rec |-> [code |-> <<5,0,0,0>>, name |-> "Expenses", type |-> "EXPENSE", parent |-> None, currency |-> "USD"]],
     [op |-> "append", rec |-> [code |-> <<5,1,0,0>>, name |-> "Cost of Goods Sold", type |-> "EXPENSE", parent |-> <<5,0,0,0>>, currency |-> "USD"]],
     [op |-> "for", kind |-> "plain", items |-> cogs, type |-> "EXPENSE", parent |-> <<5,1,0,0>>],
     [op |-> "append", rec |-> [code |-> <<5,2,0,0>>, name |-> "Operating Expenses", type |-> "EXPENSE", parent |-> <<5,0,0,0>>, currency |-> "USD"]],
     [op |-> "append", rec |-> [code |-> <<5,2,1,0>>, name |-> "Salaries and Wages", type |-> "EXPENSE", parent |-> <<5,2,0,0>>, currency |-> "USD"]],
     [op |-> "for", kind |-> "plain", items |-> payroll, type |-> "EXPENSE", parent |-> <<5,2,1,0>>],
     [op |-> "append", rec |-> [code |-> <<5,2,2,0>>, name |-> "Employee Benefits", type |-> "EXPENSE", parent |-> <<5,2,0,0>>, currency |-> "USD"]],
     [op |-> "for", kind |-> "plain", items |-> benefits, type |-> "EXPENSE", parent |-> <<5,2,2,0>>],
     [op |-> "append", rec |-> [code |-> <<5,2,3,0>>, name |-> "Rent and Occupancy", type |-> "EXPENSE", parent |-> <<5,2,0,0>>, currency |-> "USD"]],
     [op |-> "for", kind |-> "plain", items |-> occupancy, type |-> "EXPENSE", parent |-> <<5,2,3,0>>],
     [op |-> "append", rec |-> [code |-> <<5,2,4,0>>, name |-> "Marketing and Advertising", type |-> "EXPENSE", parent |-> <<5,2,0,0>>, currency |-> "USD"]],
     [op |-> "for", kind |-> "plain", items |-> marketing, type |-> "EXPENSE", parent |-> <<5,2,4,0>>],
     [op |-> "append", rec |-> [code |-> <<5,2,5,0>>, name |-> "Professional Services", type |-> "EXPENSE", parent |-> <<5,2,0,0>>, currency |-> "USD"]],
     [op |-> "for", kind |-> "plain", items |-> professional, type |-> "EXPENSE", parent |-> <<5,2,5,0>>],
     [op |-> "append", rec |-> [code |-> <<5,2,6,0>>, name |-> "Insurance", type |-> "EXPENSE", parent |-> <<5,2,0,0>>, currency |-> "USD"]],
     [op |-> "for", kind |-> "plain", items |-> insurance, type |-> "EXPENSE", parent |-> <<5,2,6,0>>],
     [op |-> "append", rec |-> [code |-> <<5,2,7,0>>, name |-> "Office and Administrative", type |-> "EXPENSE", parent |-> <<5,2,0,0>>, currency |-> "USD"]],
     [op |-> "for", kind |-> "plain", items |-> office, type |-> "EXPENSE", parent |-> <<5,2,7,0>>],
     [op |-> "append", rec |-> [code |-> <<5,2,8,0>>, name |-> "Travel and Entertainment", type |-> "EXPENSE", parent |-> <<5,2,0,0>>, currency |-> "USD"]],
     [op |-> "for", kind |-> "plain", items |-> travel, type |-> "EXPENSE", parent |-> <<5,2,8,0>>],
     [op |-> "append", rec |-> [code |-> <<5,2,9,0>>, name |-> "Maintenance and Repairs", type |-> "EXPENSE", parent |-> <<5,2,0,0>>, currency |-> "USD"]],
     [op |-> "for", kind |-> "plain", items |-> maintenance, type |-> "EXPENSE", parent |-> <<5,2,9,0>>],
     [op |-> "append", rec |-> [code |-> <<5,3,0,0>>, name |-> "Depreciation and Amortization", type |-> "EXPENSE", parent |-> <<5,0,0,0>>, currency |-> "USD"]],
     [op |-> "for", kind |-> "plain", items |-> depreciation, type |-> "EXPENSE", parent |-> <<5,3,0,0>>],
     [op |-> "append", rec |-> [code |-> <<5,4,0,0>>, name |-> "Interest and Finance Charges", type |-> "EXPENSE", parent |-> <<5,0,0,0>>, currency |-> "USD"]],
     [op |-> "for", kind |-> "plain", items |-> interest, type |-> "EXPENSE", parent |-> <<5,4,0,0>>],
     [op |-> "append", rec |-> [code |-> <<5,5,0,0>>, name |-> "Taxes", type |-> "EXPENSE", parent |-> <<5,0,0,0>>, currency |-> "USD"]],
     [op |-> "for", kind |-> "plain", items |-> taxes, type |-> "EXPENSE", parent |-> <<5,5,0,0>>],
     [op |-> "append", rec |-> [code |-> <<5,6,0,0>>, name |-> "Other Expenses", type |-> "EXPENSE", parent |-> <<5,0,0,0>>, currency |-> "USD"]],
     [op |-> "for", kind |-> "plain", items |-> other_expenses, type |-> "EXPENSE", parent |-> <<5,6,0,0>>] >>

\* Program with the Liabilities and Equity blocks exchanged
ProgramSwapped ==
  AssetsBlock \o EquityBlock \o LiabilitiesBlock \o RevenueBlock \o ExpensesBlock

\* lines 11-458: the statements of the function body in program order
Program ==
  AssetsBlock \o LiabilitiesBlock \o EquityBlock \o RevenueBlock \o ExpensesBlock

\* str.endswith("00")
endswith00(code) ==
  Len(code) >= 2 /\ code[Len(code) - 1] = 0 /\ code[Len(code)] = 0

\* line 277 with the slice taken one digit too short: code[:-2] + "0"
derived_parent_slice2(code) ==
  IF endswith00(code) THEN <<4,0,0,0>>
  ELSE SubSeq(code, 1, Len(code) - 2) \o <<0>>

\* line 277: parent = "4000" if code.endswith("00") else code[:-1] + "0"
derived_parent(code) ==
  IF endswith00(code) THEN <<4,0,0,0>>
  ELSE SubSeq(code, 1, Len(code) - 1) \o <<0>>

\* line 278 without the test parent != code
other_revenue_parent_nofallback(code) == derived_parent(code)

\* line 278 falling back to None instead of "4000"
other_revenue_parent_none(code) ==
  LET parent == derived_parent(code)
  IN  IF parent # code THEN parent ELSE None

\* line 278: parent if parent != code else "4000"
other_revenue_parent(code) ==
  LET parent == derived_parent(code)
  IN  IF parent # code THEN parent ELSE <<4,0,0,0>>

\* lines 33-34: the dict appended by the loop with optional currency
opts_record(item, type, parent) ==
  [code |-> item[1], name |-> item[2], type |-> type, parent |-> parent,
   currency |-> IF Len(item) > 2 THEN item[3] ELSE "USD"]

\* the loop body copied from the Assets block with its type left unchanged
plain_record_asset(item, type, parent) ==
  [code |-> item[1], name |-> item[2], type |-> "ASSET", parent |-> parent,
   currency |-> "USD"]

\* the dict appended by a loop `for code, name in table` with literal parent
plain_record(item, type, parent) ==
  [code |-> item[1], name |-> item[2], type |-> type, parent |-> parent,
   currency |-> "USD"]

\* the other_revenue loop appending the parent of line 277 as it is
derived_record_raw(item, type) ==
  [code |-> item[1], name |-> item[2], type |-> type,
   parent |-> derived_parent(item[1]), currency |-> "USD"]

\* line 278: the dict appended by the other_revenue loop
derived_record(item, type) ==
  [code |-> item[1], name |-> item[2], type |-> type,
   parent |-> other_revenue_parent(item[1]), currency |-> "USD"]

\* the document with the advertised count written as a literal
make_coa_500(accts) ==
  [chart_of_accounts |->
    [name |-> "Comprehensive Standard Chart of Accounts",
     description |-> "Comprehensive CoA with 500+ accounts covering multiple industries and business types",
     version |-> "1.0",
     base_currency |-> "USD",
     regulation_frameworks |-> <<"SOX", "Basel III", "MiFID II", "GDPR">>,
     account_count |-> 500,
     accounts |-> accts]]

\* lines 461-471: the document
make_coa(accts) ==
  [chart_of_accounts |->
    [name |-> "Comprehensive Standard Chart of Accounts",
     description |-> "Comprehensive CoA with 500+ accounts covering multiple industries and business types",
     version |-> "1.0",
     base_currency |-> "USD",
     regulation_frameworks |-> <<"SOX", "Basel III", "MiFID II", "GDPR">>,
     account_count |-> Len(accts),
     accounts |-> accts]]

\* dict.get(key, default)
Get(d, key, default) == IF key \in DOMAIN d THEN d[key] ELSE default

\* d[key] = value
Put(d, key, value) ==
  [x \in (DOMAIN d) \cup {key} |-> IF x = key THEN value ELSE d[x]]

\* {}
EmptyDict == [x \in {} |-> 0]

\* line 489 with the wrong default: by_type.get(acc_type, 1) + 1
tally_default1(d, acc_type) == Put(d, acc_type, Get(d, acc_type, 1) + 1)

\* line 489: by_type[acc_type] = by_type.get(acc_type, 0) + 1
tally(d, acc_type) == Put(d, acc_type, Get(d, acc_type, 0) + 1)

Init ==
  /\ pc = "call"
  /\ run = 1
  /\ stmt = 1
  /\ i = 1
  /\ accounts = <<>>
  /\ coa = Unbound
  /\ by_type = Unbound
  /\ k = 1
  /\ prev_coa = Unbound

\* the call with `accounts` kept from the previous call (a module-level list)
CallNoReset ==
  /\ pc = "call"
  /\ accounts' = accounts
  /\ stmt' = 1
  /\ i' = 1
  /\ pc' = "build"
  /\ UNCHANGED <<run, coa, by_type, k, prev_coa>>

\* line 476 and line 11: the call, and accounts = []
Call ==
  /\ pc = "call"
  /\ accounts' = <<>>
  /\ stmt' = 1
  /\ i' = 1
  /\ pc' = "build"
  /\ UNCHANGED <<run, coa, by_type, k, prev_coa>>

InBody == pc = "build" /\ stmt <= Len(Program)

\* accounts.append({...}) with a dict literal
AppendLiteral ==
  /\ InBody
  /\ Program[stmt].op = "append"
  /\ accounts' = Append(accounts, Program[stmt].rec)
  /\ stmt' = stmt + 1
  /\ UNCHANGED <<pc, run, i, coa, by_type, k, prev_coa>>

InLoop(kind) ==
  /\ InBody
  /\ Program[stmt].op = "for"
  /\ Program[stmt].kind = kind
  /\ i <= Len(Program[stmt].items)

\* lines 32-34: one iteration of the cash_accounts loop
ForOpts ==
  /\ InLoop("opts")
  /\ LET s == Program[stmt]
     IN  accounts' = Append(accounts, opts_record(s.items[i], s.type, s.parent))
  /\ i' = i + 1
  /\ UNCHANGED <<pc, run, stmt, coa, by_type, k, prev_coa>>

\* one iteration of a loop `for code, name in table`
ForPlain ==
  /\ InLoop("plain")
  /\ LET s == Program[stmt]
     IN  accounts' = Append(accounts, plain_record(s.items[i], s.type, s.parent))
  /\ i' = i + 1
  /\ UNCHANGED <<pc, run, stmt, coa, by_type, k, prev_coa>>

\* lines 276-278: one iteration of the other_revenue loop
ForDerived ==
  /\ InLoop("derived")
  /\ LET s == Program[stmt]
     IN  accounts' = Append(accounts, derived_record(s.items[i], s.type))
  /\ i' = i + 1
  /\ UNCHANGED <<pc, run, stmt, coa, by_type, k, prev_coa>>

\* the table of a for loop is exhausted
ForExit ==
  /\ InBody
  /\ Program[stmt].op = "for"
  /\ i > Len(Program[stmt].items)
  /\ stmt' = stmt + 1
  /\ i' = 1
  /\ UNCHANGED <<pc, run, accounts, coa, by_type, k, prev_coa>>

\* lines 461-473 and 476: coa = {...}; return coa
Return ==
  /\ pc = "build"
  /\ stmt > Len(Program)
  /\ coa' = make_coa(accounts)
  /\ pc' = "dump"
  /\ UNCHANGED <<run, stmt, i, accounts, by_type, k, prev_coa>>

\* lines 479-486: the file is written and the totals printed (neither is
\* state of this model), then by_type = {}
Dump ==
  /\ pc = "dump"
  /\ by_type' = EmptyDict
  /\ k' = 1
  /\ pc' = "stats"
  /\ UNCHANGED <<run, stmt, i, accounts, coa, prev_coa>>

\* lines 487-489: one iteration of the statistics loop
Tally ==
  /\ pc = "stats"
  /\ k <= Len(coa.chart_of_accounts.accounts)
  /\ LET acc == coa.chart_of_accounts.accounts[k]
         acc_type == acc.type
     IN  by_type' = tally(by_type, acc_type)
  /\ k' = k + 1
  /\ UNCHANGED <<pc, run, stmt, i, accounts, coa, prev_coa>>

\* lines 491-493: the list is exhausted; the breakdown is printed
TallyExit ==
  /\ pc = "stats"
  /\ k > Len(coa.chart_of_accounts.accounts)
  /\ pc' = "end"
  /\ UNCHANGED <<run, stmt, i, accounts, coa, by_type, k, prev_coa>>

\* lines 475-476: the script body runs again in the same interpreter
Rerun ==
  /\ pc = "end"
  /\ run < MaxRuns
  /\ prev_coa' = coa
  /\ run' = run + 1
  /\ pc' = "call"
  /\ UNCHANGED <<stmt, i, accounts, coa, by_type, k>>

Next ==
  \/ Call
  \/ AppendLiteral
  \/ ForOpts
  \/ ForPlain
  \/ ForDerived
  \/ ForExit
  \/ Return
  \/ Dump
  \/ Tally
  \/ TallyExit
  \/ Rerun

Spec == Init /\ [][Next]_vars

\* the positions at which coa holds the returned document
Returned == pc \in {"dump", "stats", "end"}

TypeOK ==
  /\ pc \in {"call", "build", "dump", "stats", "end"}
  /\ run \in 1..MaxRuns
  /\ stmt \in 1..(Len(Program) + 1)
  /\ i \in Nat \ {0}
  /\ k \in Nat \ {0}
  /\ Returned => k <= Len(coa.chart_of_accounts.accounts) + 1

(***************************************************************************)
(* Properties                                                              *)
(***************************************************************************)

\* the account list of the returned document
Final == coa.chart_of_accounts.accounts

Codes(accts) == {accts[j].code : j \in DOMAIN accts}

NoDupCodes(accts) == Cardinality(Codes(accts)) = Len(accts)

\* C1: no two records of the account list have the same code, in the
\* list under construction after every append and in the returned list.
C1_UniqueCodes ==
  /\ NoDupCodes(accounts)
  /\ Returned => NoDupCodes(Final)

C1_Witness == Returned /\ Len(Final) > 200 /\ Len(accounts) = Len(Final)

\* C2: in the returned list every non-null parent is the code of some
\* other record of the list.
C2_ParentsResolve ==
  Returned =>
    \A j \in DOMAIN Final :
      Final[j].parent # None =>
        \E m \in DOMAIN Final : m # j /\ Final[m].code = Final[j].parent

C2_Witness ==
  /\ pc = "dump"
  /\ \E j \in DOMAIN Final : Final[j].parent # None

\* C3: account_count of the returned document is the length of its
\* accounts list.
C3_CountIsLength ==
  Returned => coa.chart_of_accounts.account_count = Len(Final)

C3_Witness == pc = "dump" /\ coa.chart_of_accounts.account_count > 0

\* the number of accounts the docstring (line 3) and the description
\* (line 464) announce
PromisedCount == 500

\* C4: the returned document has at least 500 account records.
C4_AtLeast500 ==
  Returned => coa.chart_of_accounts.account_count >= PromisedCount

Roots == {<<1,0,0,0>>, <<2,0,0,0>>, <<3,0,0,0>>, <<4,0,0,0>>, <<5,0,0,0>>}

\* C5: exactly five records of the returned list have a null parent, the
\* ones with codes 1000, 2000, 3000, 4000 and 5000.
C5_FiveRoots ==
  Returned =>
    LET rootless == {j \in DOMAIN Final : Final[j].parent = None}
    IN  /\ Cardinality(rootless) = 5
        /\ {Final[j].code : j \in rootless} = Roots

C5_Witness ==
  /\ pc = "end"
  /\ \E j \in DOMAIN Final : Final[j].parent = None
  /\ \E j \in DOMAIN Final : Final[j].parent # None

RECURSIVE SumOver(_, _)
SumOver(d, keys) ==
  IF keys = {} THEN 0
  ELSE LET key == CHOOSE x \in keys : TRUE
       IN  d[key] + SumOver(d, keys \ {key})

\* C6: after every iteration of the statistics loop, by_type has exactly
\* the types of the records processed so far as keys, each with the number
\* of those records as count, and the counts sum to the number processed;
\* after the loop they sum to account_count.
C6_TallyOfPrefix ==
  pc \in {"stats", "end"} =>
    LET done == 1..(k - 1)
    IN  /\ DOMAIN by_type = {Final[j].type : j \in done}
        /\ \A t \in DOMAIN by_type :
             by_type[t] = Cardinality({j \in done : Final[j].type = t})
        /\ SumOver(by_type, DOMAIN by_type) = k - 1
        /\ pc = "end" =>
             SumOver(by_type, DOMAIN by_type) = coa.chart_of_accounts.account_count

C6_Witness ==
  /\ pc = "stats"
  /\ k > 1
  /\ Cardinality(DOMAIN by_type) > 1
  /\ \E t \in DOMAIN by_type : by_type[t] > 1

OtherRevenueCodes ==
  {<<4,3,0,0>>, <<4,4,0,0>>, <<4,4,1,0>>, <<4,4,2,0>>,
   <<4,5,0,0>>, <<4,6,0,0>>, <<4,7,0,0>>, <<4,8,0,0>>}

\* C7: every record of the other-revenue group has the code of an existing
\* record as parent, and the record 4700 has parent 4000.
C7_OtherRevenueParents ==
  Returned =>
    \A j \in DOMAIN Final :
      Final[j].code \in OtherRevenueCodes =>
        /\ Final[j].parent \in Codes(Final)
        /\ Final[j].code = <<4,7,0,0>> => Final[j].parent = <<4,0,0,0>>

C7_Witness ==
  /\ Returned
  /\ OtherRevenueCodes \subseteq Codes(Final)
  /\ \E j \in DOMAIN Final :
       Final[j].code = <<4,3,0,0>> /\ Final[j].parent = <<4,0,0,0>>

\* C8: a second call of the generator returns the same document as the
\* call before it.
C8_SameDocument ==
  (run > 1 /\ Returned) => coa = prev_coa

C8_Witness == run > 1 /\ pc = "dump" /\ Len(prev_coa.chart_of_accounts.accounts) > 0

\* position of a category in the order Assets, Liabilities, Equity,
\* Revenue, Expenses
Rank(type) ==
  CASE type = "ASSET" -> 1
    [] type = "LIABILITY" -> 2
    [] type = "EQUITY" -> 3
    [] type = "REVENUE" -> 4
    [] type = "EXPENSE" -> 5

OrderedByCategory(accts) ==
  \A j \in DOMAIN accts :
    j > 1 => Rank(accts[j - 1].type) <= Rank(accts[j].type)

\* C9: at every point of the construction, and in the returned list, the
\* records are ordered by category: no record of an earlier category
\* follows a record of a later one.
C9_CategoryOrder ==
  /\ OrderedByCategory(accounts)
  /\ Returned => OrderedByCategory(Final)

C9_Witness ==
  /\ pc = "build"
  /\ Len(accounts) > 0
  /\ {accounts[j].type : j \in DOMAIN accounts} =
       {"ASSET", "LIABILITY", "EQUITY", "REVENUE", "EXPENSE"}

TypeOfDigit(d) ==
  CASE d = 1 -> "ASSET"
    [] d = 2 -> "LIABILITY"
    [] d = 3 -> "EQUITY"
    [] d = 4 -> "REVENUE"
    [] d = 5 -> "EXPENSE"
    [] OTHER -> "none"

\* C10: the type of every record is one of the five categories and is the
\* one its code's leading digit stands for.
C10_TypeMatchesCode ==
  \A j \in DOMAIN accounts :
    /\ accounts[j].type \in {"ASSET", "LIABILITY", "EQUITY", "REVENUE", "EXPENSE"}
    /\ accounts[j].type = TypeOfDigit(accounts[j].code[1])

C10_Witness ==
  /\ pc = "build"
  /\ \A d \in 1..5 : \E j \in DOMAIN accounts : accounts[j].code[1] = d
  /\ stmt > Len(Program)

\* a code with its last digit stripped and a zero appended
LastDigitZeroed(code) == SubSeq(code, 1, Len(code) - 1) \o <<0>>

EndsIn00(code) == SubSeq(code, Len(code) - 1, Len(code)) = <<0,0>>

\* C11 as stated: in the other-revenue group a record whose code ends in
\* "00" has parent 4000 and every other record has as parent its own code
\* with the last digit stripped and a zero appended, so that 4410 and 4420
\* are not directly under 4000.
C11_AsStated ==
  Returned =>
    \A j \in DOMAIN Final :
      Final[j].code \in OtherRevenueCodes =>
        /\ EndsIn00(Final[j].code) => Final[j].parent = <<4,0,0,0>>
        /\ ~EndsIn00(Final[j].code) =>
             /\ Final[j].parent = LastDigitZeroed(Final[j].code)
             /\ Final[j].parent # <<4,0,0,0>>

\* C11 (amended): in the other-revenue group a record whose code ends in
\* "00" has parent 4000; every other record has as parent its own code
\* with the last digit stripped and a zero appended when that differs from
\* its own code, and 4000 when it does not; 4410 and 4420 end in 0, so both
\* are directly under 4000.
C11_DerivedParentWithFallback ==
  Returned =>
    \A j \in DOMAIN Final :
      Final[j].code \in OtherRevenueCodes =>
        /\ EndsIn00(Final[j].code) => Final[j].parent = <<4,0,0,0>>
        /\ ~EndsIn00(Final[j].code) =>
             Final[j].parent =
               IF LastDigitZeroed(Final[j].code) # Final[j].code
               THEN LastDigitZeroed(Final[j].code)
               ELSE <<4,0,0,0>>
        /\ Final[j].code \in {<<4,4,1,0>>, <<4,4,2,0>>} =>
             Final[j].parent = <<4,0,0,0>>

C11_Witness ==
  /\ Returned
  /\ \E j \in DOMAIN Final :
       /\ Final[j].code = <<4,4,1,0>>
       /\ ~EndsIn00(Final[j].code)
       /\ Final[j].parent = <<4,0,0,0>>
  /\ \E j \in DOMAIN Final :
       Final[j].code = <<4,4,0,0>> /\ Final[j].parent = <<4,0,0,0>>

\* every record with a parent comes after a record carrying that code
ParentsPrecede(accts) ==
  \A j \in DOMAIN accts :
    accts[j].parent # None =>
      \E m \in 1..(j - 1) : accts[m].code = accts[j].parent

\* the code of the null-parent record reached from record j by following
\* parent links for at most `fuel` steps; None when a link dangles or the
\* steps run out
RECURSIVE RootOf(_, _, _)
RootOf(accts, j, fuel) ==
  IF accts[j].parent = None THEN accts[j].code
  ELSE IF fuel = 0 THEN None
  ELSE LET up == {m \in DOMAIN accts : accts[m].code = accts[j].parent}
       IN  IF up = {} THEN None
           ELSE RootOf(accts, CHOOSE m \in up : TRUE, fuel - 1)

\* C12: at every step of the construction each record with a non-null
\* parent names the code of a record appended before it; and in the
\* returned list following parent links from any record reaches one of the
\* five null-parent roots within as many steps as there are records.
C12_ParentsFirstAndRooted ==
  /\ ParentsPrecede(accounts)
  /\ Returned =>
       /\ ParentsPrecede(Final)
       /\ \A j \in DOMAIN Final : RootOf(Final, j, Len(Final)) \in Roots

C12_Witness ==
  /\ pc = "stats"
  /\ \E j \in DOMAIN Final :
       /\ Final[j].parent # None
       /\ Final[j].parent \notin Roots
       /\ RootOf(Final, j, 2) = None
       /\ RootOf(Final, j, 3) \in Roots

=============================================================================
